---- MODULE Spec2Model ----
(***************************************************************************)
(* TEIFValidator (src/main.js): validation of a nested invoice object.     *)
(*                                                                         *)
(* A JavaScript value is a record with a type tag t and one payload field  *)
(* per kind: n (number), s (string, as a sequence of characters), a (array *)
(* elements) and o (object properties, a sequence of <<key, value>>        *)
(* pairs).  A TypeError thrown by the engine is the field "thrown" of the  *)
(* result of the operator that models the throwing method.                 *)
(***************************************************************************)
EXTENDS Integers, Sequences, FiniteSets

VARIABLES invoice, errors, pc, reports, calls

vars == <<invoice, errors, pc, reports, calls>>

(***************************** model bounds ********************************)
\* validate() calls one caller makes on one engine.
MaxCalls == 2
\* Regions of the document that differ from validInvoiceData.
MaxBroken == 2

(***************************** JavaScript values ***************************)
Undef == [t |-> "undefined", n |-> 0, s |-> <<>>, a |-> <<>>, o |-> <<>>]
Null == [t |-> "null", n |-> 0, s |-> <<>>, a |-> <<>>, o |-> <<>>]
NaN == [t |-> "nan", n |-> 0, s |-> <<>>, a |-> <<>>, o |-> <<>>]
Num(n) == [t |-> "number", n |-> n, s |-> <<>>, a |-> <<>>, o |-> <<>>]
Str(s) == [t |-> "string", n |-> 0, s |-> s, a |-> <<>>, o |-> <<>>]
Arr(a) == [t |-> "array", n |-> 0, s |-> <<>>, a |-> a, o |-> <<>>]
Obj(o) == [t |-> "object", n |-> 0, s |-> <<>>, a |-> <<>>, o |-> o]

\* v === undefined || v === null: reading a property of v throws a TypeError.
Nullish(v) == v.t \in {"undefined", "null"}

\* ToBoolean(v), the test of !v.
Truthy(v) ==
    /\ ~Nullish(v)
    /\ v.t # "nan"
    /\ ~(v.t = "number" /\ v.n = 0)
    /\ ~(v.t = "string" /\ v.s = <<>>)

\* v.k for a v that is not nullish: an own property of an object, undefined
\* for a missing property and for every property name the engine reads on a
\* string, a number or an array.
RECURSIVE Lookup(_, _, _)
Lookup(o, k, i) ==
    IF i > Len(o) THEN Undef
    ELSE IF o[i][1] = k THEN o[i][2]
    ELSE Lookup(o, k, i + 1)

Get(v, k) == IF v.t = "object" THEN Lookup(v.o, k, 1) ELSE Undef

\* v?.k
OptGet(v, k) == IF Nullish(v) THEN Undef ELSE Get(v, k)

\* v?.[0]
OptIndex0(v) ==
    IF Nullish(v) THEN Undef
    ELSE IF v.t = "array" /\ Len(v.a) > 0 THEN v.a[1]
    ELSE IF v.t = "string" /\ Len(v.s) > 0 THEN Str(<<v.s[1]>>)
    ELSE Get(v, "0")

\* v === 'literal'
StrictEqStr(v, chars) == v.t = "string" /\ v.s = chars

\* typeof v === 'number'
TypeofNumber(v) == v.t \in {"number", "nan"}

\* Array.isArray(v)
IsArray(v) == v.t = "array"

Digits == {"0", "1", "2", "3", "4", "5", "6", "7", "8", "9"}
Upper == {"A", "B", "C", "D", "E", "F", "G", "H", "I", "J", "K", "L", "M",
          "N", "O", "P", "Q", "R", "S", "T", "U", "V", "W", "X", "Y", "Z"}
DigitChars == <<"0", "1", "2", "3", "4", "5", "6", "7", "8", "9">>

\* The decimal digits of a natural number.
RECURSIVE NatToChars(_)
NatToChars(n) ==
    IF n < 10 THEN <<DigitChars[n + 1]>>
    ELSE NatToChars(n \div 10) \o <<DigitChars[(n % 10) + 1]>>

\* String(v), as a template literal and RegExp.prototype.test apply it: an
\* array is its elements joined by ",", null and undefined elements giving
\* the empty string.
RECURSIVE StringOf(_), JoinFrom(_, _)
JoinFrom(a, i) ==
    IF i > Len(a) THEN <<>>
    ELSE (IF i > 1 THEN <<",">> ELSE <<>>)
         \o (IF Nullish(a[i]) THEN <<>> ELSE StringOf(a[i]))
         \o JoinFrom(a, i + 1)

StringOf(v) ==
    CASE v.t = "string" -> v.s
      [] v.t = "number" -> IF v.n < 0 THEN <<"-">> \o NatToChars(-v.n)
                           ELSE NatToChars(v.n)
      [] v.t = "nan" -> <<"N", "a", "N">>
      [] v.t = "null" -> <<"n", "u", "l", "l">>
      [] v.t = "undefined" -> <<"u", "n", "d", "e", "f", "i", "n", "e", "d">>
      [] v.t = "array" -> JoinFrom(v.a, 1)
      [] OTHER -> <<"[", "o", "b", "j", "e", "c", "t", " ", "O", "b", "j", "e", "c", "t", "]">>

\* this.taxIdRegex.test(v): /^\d{7}[A-Z]\/[A-Z]\/[A-Z]\/\d{3}$/
taxIdRegexTest(v) ==
    LET s == StringOf(v)
    IN /\ Len(s) = 16
       /\ \A i \in 1..7 : s[i] \in Digits
       /\ s[8] \in Upper
       /\ s[9] = "/"
       /\ s[10] \in Upper
       /\ s[11] = "/"
       /\ s[12] \in Upper
       /\ s[13] = "/"
       /\ \A i \in 14..16 : s[i] \in Digits

(***************************** code literals *******************************)
Chars_2_0 == <<"2", ".", "0">>
Chars_TTN == <<"T", "T", "N">>
Chars_I11 == <<"I", "-", "1", "1">>
Chars_I31 == <<"I", "-", "3", "1">>
Chars_I61 == <<"I", "-", "6", "1">>
Chars_I62 == <<"I", "-", "6", "2">>
Chars_I176 == <<"I", "-", "1", "7", "6">>
Chars_I180 == <<"I", "-", "1", "8", "0">>
Chars_I1602 == <<"I", "-", "1", "6", "0", "2">>

(***************************** error messages ******************************)
\* A message is its text; a template's ${...} is kept beside it: the line
\* number ${index + 1} in line, the characters of ${x.value} in value.
Msg(text) == [text |-> text, line |-> 0, value |-> <<>>]
MsgLine(text, index) == [text |-> text, line |-> index + 1, value |-> <<>>]
MsgValue(text, v) == [text |-> text, line |-> 0, value |-> StringOf(v)]

MsgVersion == Msg("Root: TEIF version must be '2.0'.")
MsgAgency == Msg("Root: 'controlingAgency' must be 'TTN'.")
MsgHeaderMissing == Msg("Structure: 'InvoiceHeader' object is missing.")
MsgSenderMissing ==
    Msg("Header: Sender 'MessageSenderIdentifier' is missing or empty.")
MsgSenderFormat(v) ==
    MsgValue("Header: Sender Tax ID '${sender.value}' has an invalid format.", v)
MsgReceiverMissing ==
    Msg("Header: Receiver 'MessageReceiverIdentifier' is missing or empty.")
MsgReceiverFormat(v) ==
    MsgValue("Header: Receiver Tax ID '${receiver.value}' has an invalid format.", v)
MsgDocumentIdentifier ==
    Msg("Body: 'Bgm.DocumentIdentifier' (Invoice ID) is missing.")
MsgDocumentType ==
    Msg("Body: 'Bgm.DocumentType.code' must be 'I-11' for an invoice.")
MsgIssueDate ==
    Msg("Body: 'Dtm' entry with functionCode 'I-31' (Issue Date) is missing.")
MsgPartners ==
    Msg("Partners: 'PartnerSection.PartnerDetails' must be an array with at least a supplier and a buyer.")
MsgSupplierRequired ==
    Msg("Partners: A supplier with functionCode 'I-62' is required.")
MsgSupplierIncomplete ==
    Msg("Partners: Supplier is missing 'PartnerIdentifier' or 'PartnerNom'.")
MsgBuyerRequired ==
    Msg("Partners: A buyer with functionCode 'I-61' is required.")
MsgBuyerIncomplete ==
    Msg("Partners: Buyer is missing 'PartnerIdentifier' or 'PartnerNom'.")
MsgLines ==
    Msg("Lines: 'LinSection[0].Lin' must be an array with at least one line item.")
MsgLineItem(index) ==
    MsgLine("Line ${index + 1}: 'ItemIdentifier' or 'Description' is missing.", index)
MsgLineQuantity(index) ==
    MsgLine("Line ${index + 1}: 'Quantity' must be a positive number.", index)
MsgLineUnitPrice(index) ==
    MsgLine("Line ${index + 1}: 'UnitPrice' must be a non-negative number.", index)
MsgAmounts == Msg("Totals: 'InvoiceMoa.AmountDetails' array is missing.")
MsgTotalHT == Msg("Totals: Amount with type 'I-176' (Total HT) is missing.")
MsgTotalTTC == Msg("Totals: Amount with type 'I-180' (Total TTC) is missing.")
MsgTaxMissing == Msg("Tax: 'InvoiceTax' object is missing.")
MsgTaxTypeCode ==
    Msg("Tax: 'TaxTypeCode' for main tax should be 'I-1602' (TVA).")

(***************************** documents ***********************************)
\* One property of an object literal.
P(k, v) == <<k, v>>

\* validInvoiceData, region by region: the properties each rule group reads.
ValidRoot == <<P("version", Str(Chars_2_0)), P("controlingAgency", Str(Chars_TTN))>>

ValidSender == Obj(<<P("type", Str(<<"I", "-", "0", "1">>)), P("value", Str(<<"1", "2", "3", "4", "5", "6", "7", "A", "/", "B", "/", "M", "/", "0", "0", "0">>))>>)
ValidReceiver == Obj(<<P("type", Str(<<"I", "-", "0", "1">>)), P("value", Str(<<"7", "6", "5", "4", "3", "2", "1", "C", "/", "D", "/", "N", "/", "0", "0", "0">>))>>)
ValidHeader ==
    <<P("InvoiceHeader", Obj(<<P("MessageSenderIdentifier", ValidSender),
                               P("MessageReceiverIdentifier", ValidReceiver)>>))>>

ValidDocumentIdentifier == Str(<<"I", "N", "V", "-", "2", "0", "2", "5", "-", "0", "0", "1">>)
ValidDocumentType == Obj(<<P("code", Str(Chars_I11)), P("name", Str(<<"F", "a", "c", "t", "u", "r", "e">>))>>)
ValidBgm ==
    <<P("Bgm", Obj(<<P("DocumentIdentifier", ValidDocumentIdentifier),
                     P("DocumentType", ValidDocumentType)>>))>>

IssueDate ==
    Obj(<<P("functionCode", Str(Chars_I31)), P("format", Str(<<"D", "D", "M", "M", "Y", "Y">>)),
          P("DateText", Str(<<"1", "9", "0", "8", "2", "5">>))>>)
ValidDtm == <<P("Dtm", Arr(<<IssueDate>>))>>

Supplier ==
    Obj(<<P("functionCode", Str(Chars_I62)),
          P("Nad", Obj(<<P("PartnerIdentifier", ValidSender),
                         P("PartnerNom", Obj(<<P("value", Str(<<"T", "e", "c", "h", " ", "S", "o", "l", "u", "t", "i", "o", "n", "s", " ", "S", "A", "R", "L">>))>>)),
                         P("PartnerAdresses",
                           Arr(<<Obj(<<P("CityName", Str(<<"T", "u", "n", "i", "s">>)), P("Country", Str(<<"T", "N">>))>>)>>))>>))>>)
Buyer ==
    Obj(<<P("functionCode", Str(Chars_I61)),
          P("Nad", Obj(<<P("PartnerIdentifier", ValidReceiver),
                         P("PartnerNom", Obj(<<P("value", Str(<<"A", "l", "p", "h", "a", " ", "D", "i", "s", "t", "r", "i", "b", "u", "t", "i", "o", "n", " ", "S", "A">>))>>)),
                         P("PartnerAdresses",
                           Arr(<<Obj(<<P("CityName", Str(<<"S", "f", "a", "x">>)), P("Country", Str(<<"T", "N">>))>>)>>))>>))>>)
PartnerSection(details) == <<P("PartnerSection", Obj(<<P("PartnerDetails", details)>>))>>
ValidPartners == PartnerSection(Arr(<<Supplier, Buyer>>))

Line(id, description, quantity, unitPrice, lineTotal) ==
    Obj(<<P("ItemIdentifier", id), P("Description", description),
          P("Quantity", quantity), P("UnitPrice", unitPrice), P("LineTotal", lineTotal)>>)
Laptop == Line(Str(<<"P", "R", "D", "-", "0", "0", "1">>), Str(<<"L", "a", "p", "t", "o", "p">>), Num(2), Num(1200), Num(2400))
Printer == Line(Str(<<"P", "R", "D", "-", "0", "0", "2">>), Str(<<"P", "r", "i", "n", "t", "e", "r">>), Num(1), Num(600), Num(600))
LinSection(lin) == <<P("LinSection", Arr(<<Obj(<<P("Lin", lin)>>)>>))>>
ValidLines == LinSection(Arr(<<Laptop, Printer>>))

Amount(code, amount) == Obj(<<P("amountTypeCode", Str(code)), P("Amount", Num(amount))>>)
TotalHT == Amount(Chars_I176, 3000)
TotalTTC == Amount(Chars_I180, 3570)
InvoiceMoa(details) == <<P("InvoiceMoa", Obj(<<P("AmountDetails", details)>>))>>
ValidAmounts == InvoiceMoa(Arr(<<TotalHT, TotalTTC>>))

InvoiceTax(code) ==
    <<P("InvoiceTax", Obj(<<P("TaxTypeCode", code), P("TaxRate", Num(19)),
                            P("TaxAmount", Num(570))>>))>>
ValidTax == InvoiceTax(Str(Chars_I1602))

validInvoiceData ==
    Obj(ValidRoot \o ValidHeader \o ValidBgm \o ValidDtm \o ValidPartners
        \o ValidLines \o ValidAmounts \o ValidTax)

\* The documents a caller hands to the constructor: for each region the
\* shapes below, the first being validInvoiceData's.  An empty sequence of
\* properties is a region that is absent from the document.
RootShapes ==
    << ValidRoot,
       <<P("version", Str(<<"1", ".", "0">>)), P("controlingAgency", Str(Chars_TTN))>>,
       <<P("version", Num(2))>>,
       <<>> >>

HeaderShapes ==
    << ValidHeader,
       <<>>,
       <<P("InvoiceHeader", Null)>>,
       <<P("InvoiceHeader", Obj(<<>>))>>,
       <<P("InvoiceHeader", Obj(<<P("MessageSenderIdentifier", Obj(<<P("value", Str(<<"B", "A", "D", "I", "D">>))>>)),
                                  P("MessageReceiverIdentifier", ValidReceiver)>>))>>,
       <<P("InvoiceHeader", Obj(<<P("MessageSenderIdentifier", ValidSender),
                                  P("MessageReceiverIdentifier", Obj(<<P("value", Str(<<>>))>>))>>))>>,
       <<P("InvoiceHeader", Obj(<<P("MessageSenderIdentifier", Null),
                                  P("MessageReceiverIdentifier", Obj(<<P("value", Num(7654321))>>))>>))>>,
       <<P("InvoiceHeader", Obj(<<P("MessageSenderIdentifier", Obj(<<P("value", Str(<<"1", "2", "3", "4", "5", "6", "7", "a", "/", "B", "/", "M", "/", "0", "0", "0">>))>>)),
                                  P("MessageReceiverIdentifier", Obj(<<P("value", Str(<<"7", "6", "5", "4", "3", "2", "1", "C", "/", "D", "/", "N", "/", "0", "0", "0", "0">>))>>))>>))>> >>

BgmShapes ==
    << ValidBgm,
       <<>>,
       <<P("Bgm", Obj(<<P("DocumentIdentifier", ValidDocumentIdentifier),
                        P("DocumentType", Obj(<<P("code", Str(<<"I", "-", "1", "2">>))>>))>>))>>,
       <<P("Bgm", Obj(<<P("DocumentIdentifier", Str(<<>>)),
                        P("DocumentType", ValidDocumentType)>>))>> >>

DtmShapes ==
    << ValidDtm,
       <<>>,
       <<P("Dtm", Arr(<<>>))>>,
       <<P("Dtm", Arr(<<Obj(<<P("functionCode", Str(<<"I", "-", "3", "2">>))>>), IssueDate>>))>>,
       <<P("Dtm", Arr(<<Obj(<<P("functionCode", Str(<<"I", "-", "3", "2">>))>>)>>))>>,
       <<P("Dtm", Str(<<"1", "9", "0", "8", "2", "5">>))>>,
       <<P("Dtm", Arr(<<Null, IssueDate>>))>> >>

SupplierWithoutNom ==
    Obj(<<P("functionCode", Str(Chars_I62)),
          P("Nad", Obj(<<P("PartnerIdentifier", ValidSender)>>))>>)
BuyerWithoutNad == Obj(<<P("functionCode", Str(Chars_I61))>>)

PartnerShapes ==
    << ValidPartners,
       <<>>,
       PartnerSection(Arr(<<Supplier>>)),
       PartnerSection(Obj(<<P("length", Num(2))>>)),
       PartnerSection(Arr(<<Supplier, Supplier>>)),
       PartnerSection(Arr(<<SupplierWithoutNom, Supplier, Buyer>>)),
       PartnerSection(Arr(<<Supplier, Buyer, BuyerWithoutNad>>)),
       PartnerSection(Arr(<<BuyerWithoutNad, Buyer>>)),
       PartnerSection(Arr(<<Supplier, Buyer, Null>>)),
       PartnerSection(Arr(<<Supplier, Null, Buyer>>)),
       PartnerSection(Arr(<<Null, Supplier, Buyer>>)) >>

NegativePrice == Line(Str(<<"P", "R", "D", "-", "0", "0", "1">>), Str(<<"L", "a", "p", "t", "o", "p">>), Num(2), Num(-5), Num(-10))
FreeItem == Line(Str(<<"P", "R", "D", "-", "0", "0", "2">>), Str(<<"P", "r", "i", "n", "t", "e", "r">>), Num(1), Num(0), Num(0))
ZeroQuantity == Line(Str(<<"P", "R", "D", "-", "0", "0", "2">>), Undef, Num(0), Num(600), Num(0))
TextQuantity == Line(Str(<<"P", "R", "D", "-", "0", "0", "1">>), Str(<<"L", "a", "p", "t", "o", "p">>), Str(<<"2">>), Num(-5), Num(0))
NaNQuantity == Line(Str(<<"P", "R", "D", "-", "0", "0", "1">>), Str(<<"L", "a", "p", "t", "o", "p">>), NaN, Num(1200), NaN)

LineShapes ==
    << ValidLines,
       <<>>,
       <<P("LinSection", Arr(<<>>))>>,
       LinSection(Arr(<<>>)),
       LinSection(Str(<<"P", "R", "D", "-", "0", "0", "1">>)),
       LinSection(Arr(<<NegativePrice>>)),
       LinSection(Arr(<<Laptop, FreeItem>>)),
       LinSection(Arr(<<Obj(<<>>), Laptop, ZeroQuantity>>)),
       LinSection(Arr(<<TextQuantity, NegativePrice>>)),
       LinSection(Arr(<<NaNQuantity>>)),
       LinSection(Arr(<<Laptop, Null>>)) >>

AmountShapes ==
    << ValidAmounts,
       <<>>,
       InvoiceMoa(Arr(<<>>)),
       InvoiceMoa(Arr(<<TotalHT>>)),
       InvoiceMoa(Arr(<<TotalTTC, TotalHT>>)),
       InvoiceMoa(Num(3000)),
       InvoiceMoa(Arr(<<TotalHT, Null>>)) >>

TaxShapes ==
    << ValidTax,
       <<>>,
       InvoiceTax(Str(<<"I", "-", "1", "6", "0", "3">>)) >>

\* The number of regions whose shape is not validInvoiceData's.
Broken(choice) == Cardinality({i \in DOMAIN choice : choice[i] # 1})

\* The document with the chosen shape of each region.
Document(r, h, b, d, p, l, a, t) ==
    Obj(RootShapes[r] \o HeaderShapes[h] \o BgmShapes[b] \o DtmShapes[d]
        \o PartnerShapes[p] \o LineShapes[l] \o AmountShapes[a] \o TaxShapes[t])

\* The document {}.
EmptyDocument == Obj(<<>>)


(***************************** the engine **********************************)
\* What a method leaves behind: this.errors, and whether it threw.
Completed(errs) == [errors |-> errs, thrown |-> FALSE]
Thrown(errs) == [errors |-> errs, thrown |-> TRUE]

\* this.errors.push(message)
_addError(errs, message) == Append(errs, message)

\* The scan of arr.find(x => x[key] === code) from element i on: the first
\* match, undefined when there is none; reading x[key] of a null or
\* undefined element throws.
RECURSIVE FindFrom(_, _, _, _)
FindFrom(a, key, code, i) ==
    IF i > Len(a) THEN [thrown |-> FALSE, val |-> Undef]
    ELSE IF Nullish(a[i]) THEN [thrown |-> TRUE, val |-> Undef]
    ELSE IF StrictEqStr(Get(a[i], key), code) THEN [thrown |-> FALSE, val |-> a[i]]
    ELSE FindFrom(a, key, code, i + 1)

\* v.find(x => x[key] === code) for a v that is not nullish: only an array
\* has a find method, and calling the undefined v.find throws.
find(v, key, code) ==
    IF IsArray(v) THEN FindFrom(v.a, key, code, 1)
    ELSE [thrown |-> TRUE, val |-> Undef]

_validateRoot(inv, errs) ==
    LET e1 == IF ~StrictEqStr(Get(inv, "version"), Chars_2_0)
              THEN _addError(errs, MsgVersion) ELSE errs
        e2 == IF ~StrictEqStr(Get(inv, "controlingAgency"), Chars_TTN)
              THEN _addError(e1, MsgAgency) ELSE e1
    IN Completed(e2)

\* _validateHeader with the receiver looked at only when the sender passed.
_validateHeaderFailFast(inv, errs) ==
    LET header == Get(inv, "InvoiceHeader")
        sender == Get(header, "MessageSenderIdentifier")
        receiver == Get(header, "MessageReceiverIdentifier")
    IN IF ~Truthy(header)
       THEN Completed(_addError(errs, MsgHeaderMissing))
       ELSE IF ~Truthy(sender) \/ ~Truthy(Get(sender, "value"))
       THEN Completed(_addError(errs, MsgSenderMissing))
       ELSE IF ~taxIdRegexTest(Get(sender, "value"))
       THEN Completed(_addError(errs, MsgSenderFormat(Get(sender, "value"))))
       ELSE IF ~Truthy(receiver) \/ ~Truthy(Get(receiver, "value"))
       THEN Completed(_addError(errs, MsgReceiverMissing))
       ELSE IF ~taxIdRegexTest(Get(receiver, "value"))
       THEN Completed(_addError(errs, MsgReceiverFormat(Get(receiver, "value"))))
       ELSE Completed(errs)

_validateHeader(inv, errs) ==
    LET header == Get(inv, "InvoiceHeader")
        sender == Get(header, "MessageSenderIdentifier")
        e1 == IF ~Truthy(sender) \/ ~Truthy(Get(sender, "value"))
              THEN _addError(errs, MsgSenderMissing)
              ELSE IF ~taxIdRegexTest(Get(sender, "value"))
              THEN _addError(errs, MsgSenderFormat(Get(sender, "value")))
              ELSE errs
        receiver == Get(header, "MessageReceiverIdentifier")
        e2 == IF ~Truthy(receiver) \/ ~Truthy(Get(receiver, "value"))
              THEN _addError(e1, MsgReceiverMissing)
              ELSE IF ~taxIdRegexTest(Get(receiver, "value"))
              THEN _addError(e1, MsgReceiverFormat(Get(receiver, "value")))
              ELSE e1
    IN IF ~Truthy(header)
       THEN Completed(_addError(errs, MsgHeaderMissing))
       ELSE Completed(e2)

_validateBgmAndDtm(inv, errs) ==
    LET Bgm == Get(inv, "Bgm")
        e1 == IF ~Truthy(Bgm) \/ ~Truthy(Get(Bgm, "DocumentIdentifier"))
              THEN _addError(errs, MsgDocumentIdentifier) ELSE errs
        e2 == IF ~StrictEqStr(OptGet(OptGet(Bgm, "DocumentType"), "code"), Chars_I11)
              THEN _addError(e1, MsgDocumentType) ELSE e1
        Dtm == Get(inv, "Dtm")
        issueDate == IF Nullish(Dtm) THEN [thrown |-> FALSE, val |-> Undef]
                     ELSE find(Dtm, "functionCode", Chars_I31)
    IN IF issueDate.thrown THEN Thrown(e2)
       ELSE IF ~Truthy(issueDate.val) THEN Completed(_addError(e2, MsgIssueDate))
       ELSE Completed(e2)

\* !p.Nad?.PartnerIdentifier?.value || !p.Nad?.PartnerNom?.value
PartnerIncomplete(p) ==
    \/ ~Truthy(OptGet(OptGet(Get(p, "Nad"), "PartnerIdentifier"), "value"))
    \/ ~Truthy(OptGet(OptGet(Get(p, "Nad"), "PartnerNom"), "value"))

\* _validatePartners with the length test partners.length < 1.
_validatePartnersMinOne(inv, errs) ==
    LET partners == OptGet(Get(inv, "PartnerSection"), "PartnerDetails")
        supplier == find(partners, "functionCode", Chars_I62)
        e1 == IF ~Truthy(supplier.val) THEN _addError(errs, MsgSupplierRequired)
              ELSE IF PartnerIncomplete(supplier.val)
              THEN _addError(errs, MsgSupplierIncomplete)
              ELSE errs
        buyer == find(partners, "functionCode", Chars_I61)
        e2 == IF ~Truthy(buyer.val) THEN _addError(e1, MsgBuyerRequired)
              ELSE IF PartnerIncomplete(buyer.val)
              THEN _addError(e1, MsgBuyerIncomplete)
              ELSE e1
    IN IF ~Truthy(partners) \/ ~IsArray(partners) \/ Len(partners.a) < 1
       THEN Completed(_addError(errs, MsgPartners))
       ELSE IF supplier.thrown THEN Thrown(errs)
       ELSE IF buyer.thrown THEN Thrown(e1)
       ELSE Completed(e2)

_validatePartners(inv, errs) ==
    LET partners == OptGet(Get(inv, "PartnerSection"), "PartnerDetails")
        supplier == find(partners, "functionCode", Chars_I62)
        e1 == IF ~Truthy(supplier.val) THEN _addError(errs, MsgSupplierRequired)
              ELSE IF PartnerIncomplete(supplier.val)
              THEN _addError(errs, MsgSupplierIncomplete)
              ELSE errs
        buyer == find(partners, "functionCode", Chars_I61)
        e2 == IF ~Truthy(buyer.val) THEN _addError(e1, MsgBuyerRequired)
              ELSE IF PartnerIncomplete(buyer.val)
              THEN _addError(e1, MsgBuyerIncomplete)
              ELSE e1
    IN IF ~Truthy(partners) \/ ~IsArray(partners) \/ Len(partners.a) < 2
       THEN Completed(_addError(errs, MsgPartners))
       ELSE IF supplier.thrown THEN Thrown(errs)
       ELSE IF buyer.thrown THEN Thrown(e1)
       ELSE Completed(e2)

\* The callback of lines.forEach for one line, index counted from 0; reading
\* a property of a null or undefined line throws.
CheckLine(line, index, errs) ==
    LET e1 == IF ~Truthy(Get(line, "ItemIdentifier")) \/ ~Truthy(Get(line, "Description"))
              THEN _addError(errs, MsgLineItem(index)) ELSE errs
        Quantity == Get(line, "Quantity")
        e2 == IF ~TypeofNumber(Quantity) \/ (Quantity.t = "number" /\ Quantity.n <= 0)
              THEN _addError(e1, MsgLineQuantity(index)) ELSE e1
        UnitPrice == Get(line, "UnitPrice")
        e3 == IF ~TypeofNumber(UnitPrice) \/ (UnitPrice.t = "number" /\ UnitPrice.n < 0)
              THEN _addError(e2, MsgLineUnitPrice(index)) ELSE e2
    IN IF Nullish(line) THEN Thrown(errs) ELSE Completed(e3)

\* lines.forEach((line, index) => ...) from index i on.
RECURSIVE ForEachLine(_, _, _)
ForEachLine(a, i, errs) ==
    IF i >= Len(a) THEN Completed(errs)
    ELSE LET r == CheckLine(a[i + 1], i, errs)
         IN IF r.thrown THEN r ELSE ForEachLine(a, i + 1, r.errors)

_validateLines(inv, errs) ==
    LET lines == OptGet(OptIndex0(Get(inv, "LinSection")), "Lin")
    IN IF ~Truthy(lines) \/ ~IsArray(lines) \/ Len(lines.a) = 0
       THEN Completed(_addError(errs, MsgLines))
       ELSE ForEachLine(lines.a, 0, errs)

_validateTotals(inv, errs) ==
    LET amounts == OptGet(Get(inv, "InvoiceMoa"), "AmountDetails")
        totalHT == find(amounts, "amountTypeCode", Chars_I176)
        e1 == IF ~Truthy(totalHT.val) THEN _addError(errs, MsgTotalHT) ELSE errs
        totalTTC == find(amounts, "amountTypeCode", Chars_I180)
        e2 == IF ~Truthy(totalTTC.val) THEN _addError(e1, MsgTotalTTC) ELSE e1
        taxInfo == Get(inv, "InvoiceTax")
        e3 == IF ~Truthy(taxInfo) THEN _addError(e2, MsgTaxMissing)
              ELSE IF ~StrictEqStr(Get(taxInfo, "TaxTypeCode"), Chars_I1602)
              THEN _addError(e2, MsgTaxTypeCode)
              ELSE e2
    IN IF ~Truthy(amounts) \/ ~IsArray(amounts)
       THEN Completed(_addError(errs, MsgAmounts))
       ELSE IF totalHT.thrown THEN Thrown(errs)
       ELSE IF totalTTC.thrown THEN Thrown(e1)
       ELSE Completed(e3)

\* Report with the length test inverted (!== for ===).
ReportInverted(errs) == [isValid |-> Len(errs) # 0, errors |-> errs]

\* The object validate() returns.
Report(errs) == [isValid |-> Len(errs) = 0, errors |-> errs]

(***************************** the state machine ***************************)
\* pc is where the engine stands: "constructed" after new TEIFValidator(d),
\* inside validate() the method that runs next, "returned" after validate()
\* has returned its report and "thrown" after it has thrown.  reports holds
\* the reports validate() has returned to the caller, in order.
Init ==
    /\ \/ \E r \in DOMAIN RootShapes, h \in DOMAIN HeaderShapes,
             b \in DOMAIN BgmShapes, d \in DOMAIN DtmShapes,
             p \in DOMAIN PartnerShapes, l \in DOMAIN LineShapes,
             a \in DOMAIN AmountShapes, t \in DOMAIN TaxShapes :
             /\ Broken(<<r, h, b, d, p, l, a, t>>) <= MaxBroken
             /\ invoice = Document(r, h, b, d, p, l, a, t)
       \/ invoice = EmptyDocument
    /\ errors = <<>>
    /\ pc = "constructed"
    /\ reports = <<>>
    /\ calls = 0

\* A method of validate() has run: this.errors is what it left, and the next
\* method runs unless it threw.
Step(result, next) ==
    /\ errors' = result.errors
    /\ pc' = IF result.thrown THEN "thrown" ELSE next
    /\ UNCHANGED <<invoice, reports, calls>>

\* Validate without the reset of this.errors.
ValidateWithoutReset ==
    /\ pc \in {"constructed", "returned", "thrown"}
    /\ calls < MaxCalls
    /\ calls' = calls + 1
    /\ pc' = "_validateRoot"
    /\ UNCHANGED <<invoice, errors, reports>>

\* validate() is called: this.errors = [].
Validate ==
    /\ pc \in {"constructed", "returned", "thrown"}
    /\ calls < MaxCalls
    /\ calls' = calls + 1
    /\ errors' = <<>>
    /\ pc' = "_validateRoot"
    /\ UNCHANGED <<invoice, reports>>

ValidateRoot ==
    /\ pc = "_validateRoot"
    /\ Step(_validateRoot(invoice, errors), "_validateHeader")

ValidateHeader ==
    /\ pc = "_validateHeader"
    /\ Step(_validateHeader(invoice, errors), "_validateBgmAndDtm")

ValidateBgmAndDtm ==
    /\ pc = "_validateBgmAndDtm"
    /\ Step(_validateBgmAndDtm(invoice, errors), "_validatePartners")

ValidatePartners ==
    /\ pc = "_validatePartners"
    /\ Step(_validatePartners(invoice, errors), "_validateLines")

ValidateLines ==
    /\ pc = "_validateLines"
    /\ Step(_validateLines(invoice, errors), "_validateTotals")

ValidateTotals ==
    /\ pc = "_validateTotals"
    /\ Step(_validateTotals(invoice, errors), "return")

\* return { isValid: this.errors.length === 0, errors: this.errors }
Return ==
    /\ pc = "return"
    /\ reports' = Append(reports, Report(errors))
    /\ pc' = "returned"
    /\ UNCHANGED <<invoice, errors, calls>>

Next ==
    \/ Validate
    \/ ValidateRoot
    \/ ValidateHeader
    \/ ValidateBgmAndDtm
    \/ ValidatePartners
    \/ ValidateLines
    \/ ValidateTotals
    \/ Return

Spec == Init /\ [][Next]_vars

(***************************** properties **********************************)
\* validate() has ended, by returning or by throwing.
Finished == pc \in {"returned", "thrown"}

\* The report the last validate() call returned.
LastReport == reports[Len(reports)]

\* this.errors holds message m.
Has(m) == \E i \in DOMAIN errors : errors[i] = m

\* The concatenation of a sequence of sequences.
RECURSIVE Concat(_)
Concat(ss) == IF ss = <<>> THEN <<>> ELSE Head(ss) \o Concat(Tail(ss))

\* The documents of the scenarios: validInvoiceData with one region changed.
BadSenderDocument == Document(1, 5, 1, 1, 1, 1, 1, 1)
OnlySupplierDocument == Document(1, 1, 1, 1, 3, 1, 1, 1)
NegativePriceDocument == Document(1, 1, 1, 1, 1, 6, 1, 1)

\* The tax-ID pattern as the data model words it: 7 digits, one uppercase
\* letter, then three times '/' and a character, the last three being digits.
TaxIdPattern ==
    <<Digits, Digits, Digits, Digits, Digits, Digits, Digits, Upper, {"/"},
      Upper, {"/"}, Upper, {"/"}, Digits, Digits, Digits>>
MatchesTaxId(s) ==
    /\ Len(s) = Len(TaxIdPattern)
    /\ \A i \in DOMAIN TaxIdPattern : s[i] \in TaxIdPattern[i]

\* A field that is absent or empty.
Missing(v) == ~Truthy(v)

\* The first entry of a sequence of records tagged key = code; 0 if none.
\* A null entry carries no tag.
Tagged(a, key, code) ==
    {i \in DOMAIN a : StrictEqStr(OptGet(a[i], key), code)}
FirstTagged(a, key, code) ==
    IF Tagged(a, key, code) = {} THEN 0
    ELSE CHOOSE i \in Tagged(a, key, code) : \A j \in Tagged(a, key, code) : i <= j

\* A numeric value.
IsNumber(v) == v.t = "number"

\* C1: for every document, validate() terminates with a report and never
\* throws, whatever substructure is missing, null or of the wrong type.
C1_NeverThrows == pc # "thrown"

\* C2: in every report validate() has returned, isValid is true if and only
\* if the errors of that report are empty.
C2_ValidIffNoErrors ==
    \A i \in DOMAIN reports : reports[i].isValid <=> (reports[i].errors = <<>>)

C2_Witness ==
    /\ Len(reports) >= 2
    /\ ~reports[2].isValid
    /\ reports[2].errors # <<>>

\* C3: every validate() call starts from an empty this.errors, and all the
\* reports returned for one document are the same: the same errors in the
\* same order, nothing carried over from an earlier call.
C3_Idempotent ==
    /\ pc = "_validateRoot" => errors = <<>>
    /\ \A i, j \in DOMAIN reports : reports[i] = reports[j]

C3_Witness ==
    /\ Len(reports) >= 2
    /\ Len(reports[1].errors) >= 2

\* What each rule group records from its own region, in the fixed order.
OwnErrors ==
    <<_validateRoot(invoice, <<>>).errors, _validateHeader(invoice, <<>>).errors,
      _validateBgmAndDtm(invoice, <<>>).errors, _validatePartners(invoice, <<>>).errors,
      _validateLines(invoice, <<>>).errors, _validateTotals(invoice, <<>>).errors>>

\* C4: when a validate() call ends, all six rule groups have run once, in
\* order: this.errors is the concatenation of what each group records from
\* its own region, whatever the other groups found.
C4_AllGroupsRun == Finished => errors = Concat(OwnErrors)

\* C5: when InvoiceMoa.AmountDetails is absent or not a sequence, the report
\* holds the amounts-missing violation and the tax summary is still checked:
\* a missing InvoiceTax and a wrong TaxTypeCode are each reported.
C5_TaxCheckedWithoutAmounts ==
    LET amounts == OptGet(Get(invoice, "InvoiceMoa"), "AmountDetails")
        taxInfo == Get(invoice, "InvoiceTax")
    IN (pc = "returned" /\ ~IsArray(amounts)) =>
          /\ Has(MsgAmounts)
          /\ Missing(taxInfo) => Has(MsgTaxMissing)
          /\ (~Missing(taxInfo) /\ ~StrictEqStr(Get(taxInfo, "TaxTypeCode"), Chars_I1602))
                => Has(MsgTaxTypeCode)

\* C6 as stated: for validInvoiceData with only the supplier in
\* PartnerDetails, the errors hold the buyer-required violation (beside the
\* violation of the at-least-two-entries check).
C6_BuyerRequiredReported ==
    (pc = "returned" /\ invoice = OnlySupplierDocument) =>
        Has(MsgBuyerRequired) /\ Has(MsgPartners)

\* C6 as amended: for validInvoiceData with only the supplier in
\* PartnerDetails, the errors are exactly the one violation of the
\* at-least-two-entries check; the buyer-required violation is not recorded.
C6_OnlyLengthViolation ==
    (pc = "returned" /\ invoice = OnlySupplierDocument) =>
        /\ errors = <<MsgPartners>>
        /\ LastReport = [isValid |-> FALSE, errors |-> <<MsgPartners>>]

C6_Witness == pc = "returned" /\ invoice = OnlySupplierDocument

\* The rule set of C7, read off the document.
RootHolds(doc) ==
    /\ StrictEqStr(Get(doc, "version"), Chars_2_0)
    /\ StrictEqStr(Get(doc, "controlingAgency"), Chars_TTN)

IdentifierHolds(id) ==
    LET value == OptGet(id, "value")
    IN value.t = "string" /\ MatchesTaxId(value.s)

HeaderHolds(doc) ==
    /\ IdentifierHolds(OptGet(Get(doc, "InvoiceHeader"), "MessageSenderIdentifier"))
    /\ IdentifierHolds(OptGet(Get(doc, "InvoiceHeader"), "MessageReceiverIdentifier"))

BgmAndDtmHold(doc) ==
    /\ ~Missing(OptGet(Get(doc, "Bgm"), "DocumentIdentifier"))
    /\ StrictEqStr(OptGet(OptGet(Get(doc, "Bgm"), "DocumentType"), "code"), Chars_I11)
    /\ IsArray(Get(doc, "Dtm"))
    /\ Tagged(Get(doc, "Dtm").a, "functionCode", Chars_I31) # {}

\* The role's first entry exists and has a partner identifier and a name.
RoleHolds(a, code) ==
    LET i == FirstTagged(a, "functionCode", code)
    IN /\ i # 0
       /\ ~Missing(OptGet(OptGet(Get(a[i], "Nad"), "PartnerIdentifier"), "value"))
       /\ ~Missing(OptGet(OptGet(Get(a[i], "Nad"), "PartnerNom"), "value"))

PartnersHold(doc) ==
    LET partners == OptGet(Get(doc, "PartnerSection"), "PartnerDetails")
    IN /\ IsArray(partners)
       /\ Len(partners.a) >= 2
       /\ RoleHolds(partners.a, Chars_I62)
       /\ RoleHolds(partners.a, Chars_I61)

LineHolds(line) ==
    /\ ~Missing(OptGet(line, "ItemIdentifier"))
    /\ ~Missing(OptGet(line, "Description"))
    /\ IsNumber(OptGet(line, "Quantity")) /\ OptGet(line, "Quantity").n > 0
    /\ IsNumber(OptGet(line, "UnitPrice")) /\ OptGet(line, "UnitPrice").n >= 0

LinesHold(doc) ==
    LET lines == OptGet(OptIndex0(Get(doc, "LinSection")), "Lin")
    IN /\ IsArray(lines)
       /\ Len(lines.a) > 0
       /\ \A i \in DOMAIN lines.a : LineHolds(lines.a[i])

TotalsHold(doc) ==
    LET amounts == OptGet(Get(doc, "InvoiceMoa"), "AmountDetails")
    IN /\ IsArray(amounts)
       /\ Tagged(amounts.a, "amountTypeCode", Chars_I176) # {}
       /\ Tagged(amounts.a, "amountTypeCode", Chars_I180) # {}
       /\ StrictEqStr(OptGet(Get(doc, "InvoiceTax"), "TaxTypeCode"), Chars_I1602)

RuleSetHolds(doc) ==
    /\ RootHolds(doc)
    /\ HeaderHolds(doc)
    /\ BgmAndDtmHold(doc)
    /\ PartnersHold(doc)
    /\ LinesHold(doc)
    /\ TotalsHold(doc)

\* C7: validate() returns a report, with isValid = true and errors = []
\* exactly when the document satisfies the rule set, and with isValid = false
\* in every other case.
C7_VerdictMatchesRuleSet ==
    Finished =>
        /\ pc = "returned"
        /\ LastReport.isValid <=> RuleSetHolds(invoice)
        /\ LastReport.isValid <=> (LastReport.errors = <<>>)

\* What C8 has line number i (from 1) contribute.
LineViolations(line, i) ==
    (IF Missing(OptGet(line, "ItemIdentifier")) \/ Missing(OptGet(line, "Description"))
     THEN <<MsgLineItem(i - 1)>> ELSE <<>>)
    \o (IF ~IsNumber(OptGet(line, "Quantity")) \/ OptGet(line, "Quantity").n <= 0
        THEN <<MsgLineQuantity(i - 1)>> ELSE <<>>)
    \o (IF ~IsNumber(OptGet(line, "UnitPrice")) \/ OptGet(line, "UnitPrice").n < 0
        THEN <<MsgLineUnitPrice(i - 1)>> ELSE <<>>)

LinesViolations(doc) ==
    LET lines == OptGet(OptIndex0(Get(doc, "LinSection")), "Lin")
    IN IF ~IsArray(lines) \/ Len(lines.a) = 0 THEN <<MsgLines>>
       ELSE Concat([i \in DOMAIN lines.a |-> LineViolations(lines.a[i], i)])

\* One run of _validateLines, as C8 has it.
C8_LinesStep ==
    pc = "_validateLines" =>
        /\ pc' = "_validateTotals"
        /\ errors' = errors \o LinesViolations(invoice)

\* The report for validInvoiceData with one line of UnitPrice -5, as C8 has it.
C8_NegativePrice ==
    (pc = "returned" /\ invoice = NegativePriceDocument) =>
        LastReport = [isValid |-> FALSE, errors |-> <<MsgLineUnitPrice(0)>>]

\* C8: the Line-Items group records one violation when the line collection
\* is absent, not a sequence or empty, and otherwise goes through every line
\* in order, each line adding its own zero to three violations under its
\* position counted from 1; the group then hands over to the next group.
\* validInvoiceData with one line of UnitPrice -5 yields exactly the
\* unit-price message of line 1.
C8_LinesGroup == [][C8_LinesStep]_vars /\ []C8_NegativePrice

\* What C9 has one party identifier contribute.
IdentifierViolations(id, missing, format) ==
    IF Missing(id) \/ Missing(OptGet(id, "value")) THEN <<missing>>
    ELSE IF ~MatchesTaxId(StringOf(Get(id, "value"))) THEN <<format>>
    ELSE <<>>

HeaderViolations(doc) ==
    LET header == Get(doc, "InvoiceHeader")
        sender == OptGet(header, "MessageSenderIdentifier")
        receiver == OptGet(header, "MessageReceiverIdentifier")
    IN IF Missing(header) THEN <<MsgHeaderMissing>>
       ELSE IdentifierViolations(sender, MsgSenderMissing,
                                 MsgSenderFormat(OptGet(sender, "value")))
            \o IdentifierViolations(receiver, MsgReceiverMissing,
                                    MsgReceiverFormat(OptGet(receiver, "value")))

\* One run of _validateHeader, as C9 has it.
C9_HeaderStep ==
    pc = "_validateHeader" =>
        /\ pc' = "_validateBgmAndDtm"
        /\ errors' = errors \o HeaderViolations(invoice)
        /\ Len(HeaderViolations(invoice)) <= 2

\* The report for validInvoiceData with the sender value "BADID", as C9 has it.
C9_BadSender ==
    (pc = "returned" /\ invoice = BadSenderDocument) =>
        LastReport = [isValid |-> FALSE,
                      errors |-> <<MsgSenderFormat(Str(<<"B", "A", "D", "I", "D">>))>>]

\* C9: the Header group records the one header-missing violation when
\* InvoiceHeader is absent, and otherwise at most one violation for the
\* sender and at most one for the receiver, each checked on its own
\* (missing-or-empty, else invalid format naming the value); the next group
\* runs in either case.  validInvoiceData with the sender value "BADID"
\* yields exactly the sender's invalid-format message.
C9_HeaderGroup == [][C9_HeaderStep]_vars /\ []C9_BadSender

C9_Witness ==
    /\ pc = "returned"
    /\ invoice = BadSenderDocument
    /\ Len(errors) = 1

\* What C10 has one role contribute.
RoleViolations(a, code, required, incomplete) ==
    IF FirstTagged(a, "functionCode", code) = 0 THEN <<required>>
    ELSE IF ~RoleHolds(a, code) THEN <<incomplete>>
    ELSE <<>>

PartnersViolations(doc) ==
    LET partners == OptGet(Get(doc, "PartnerSection"), "PartnerDetails")
    IN IF ~IsArray(partners) \/ Len(partners.a) < 2 THEN <<MsgPartners>>
       ELSE RoleViolations(partners.a, Chars_I62, MsgSupplierRequired, MsgSupplierIncomplete)
            \o RoleViolations(partners.a, Chars_I61, MsgBuyerRequired, MsgBuyerIncomplete)

\* One run of _validatePartners, as C10 has it.
C10_PartnersStep ==
    pc = "_validatePartners" =>
        /\ pc' = "_validateLines"
        /\ errors' = errors \o PartnersViolations(invoice)

\* C10: the Trading-Partner group records one violation when PartnerDetails
\* is absent, not a sequence or shorter than 2, and otherwise, for the
\* supplier and for the buyer on their own, looks at the first entry with the
\* role's function code only: role-required when there is none, one combined
\* violation when it lacks its identifier or its name.
C10_PartnersGroup == [][C10_PartnersStep]_vars

====
